---- MODULE Spec2Model ----
(***************************************************************************)
(* Streaming decoder of concatenated JSON objects (src/app.py).            *)
(*                                                                         *)
(* parse_json_stream is a generator: it pulls byte chunks from the HTTP    *)
(* response, decodes each chunk as UTF-8, appends the text to a buffer,    *)
(* cuts the buffer at the first "{" and then decodes JSON values from the  *)
(* buffer front until a decode fails.  query_endpoint_streamed drives the  *)
(* generator, prints each value and finally checks the response status.    *)
(*                                                                         *)
(* Bytes and characters are modelled by their numeric codes.  The inputs   *)
(* are drawn from an alphabet of one-byte characters and one two-byte      *)
(* UTF-8 character; the JSON scanner is modelled on that alphabet (no      *)
(* backslash, no "[", no literal names, digits without sign or fraction).  *)
(***************************************************************************)
EXTENDS Integers, Sequences, FiniteSets, TLC

\* ------------------------------------------------------------------ bounds
MaxObjs == 2        \* objects in a stream of the wire format
MaxLen  == 4        \* bytes in a stream of arbitrary bytes

\* --------------------------------------------------------------- characters
\* Code points of the characters the scanner and the trim step look at.
Ch == [lbrace |-> 123, rbrace |-> 125, quote |-> 34, colon |-> 58,
       comma  |-> 44,  space  |-> 32,  one   |-> 49, eacute |-> 233]

WHITESPACE == {32, 9, 10, 13}
DIGITS     == 48..57

Min(a, b) == IF a < b THEN a ELSE b
Max(a, b) == IF a > b THEN a ELSE b

\* ------------------------------------------------------------------ values
\* A decoded JSON value.  Every value has the same record shape so that
\* values of different kinds can be compared.
NoVal     == [t |-> "none", n |-> 0, s |-> <<>>, m |-> {}]
NumVal(n) == [t |-> "num",  n |-> n, s |-> <<>>, m |-> {}]
StrVal(s) == [t |-> "str",  n |-> 0, s |-> s,    m |-> {}]
ObjVal(m) == [t |-> "obj",  n |-> 0, s |-> <<>>, m |-> m]

\* dict(pairs): a later pair of the same key replaces the earlier one.
DictPut(m, k, v) == {p \in m : p[1] # k} \cup {<<k, v>>}

\* --------------------------------------------------------- bytes.decode
\* chunk.decode("utf-8") for one- and two-byte sequences: a byte below 128
\* is the character itself, a lead byte 0xC2..0xDF needs one continuation
\* byte 0x80..0xBF; anything else raises UnicodeDecodeError.
RECURSIVE Utf8Decode(_)
Utf8Decode(bytes) ==
  IF bytes = <<>> THEN [ok |-> TRUE, text |-> <<>>]
  ELSE IF bytes[1] < 128 THEN
    LET r == Utf8Decode(Tail(bytes)) IN
    [ok |-> r.ok, text |-> <<bytes[1]>> \o r.text]
  ELSE IF bytes[1] \in 194..223 /\ Len(bytes) >= 2 /\ bytes[2] \in 128..191 THEN
    LET r == Utf8Decode(SubSeq(bytes, 3, Len(bytes))) IN
    [ok |-> r.ok, text |-> <<(bytes[1] - 192) * 64 + (bytes[2] - 128)>> \o r.text]
  ELSE [ok |-> FALSE, text |-> <<>>]

\* Number of bytes of the UTF-8 encoding of a text.
RECURSIVE ByteLen(_)
ByteLen(text) ==
  IF text = <<>> THEN 0
  ELSE (IF text[1] < 128 THEN 1 ELSE 2) + ByteLen(Tail(text))

\* ------------------------------------------------------- str.find, slicing
\* s.find(c): 0-based index of the first occurrence of c, -1 if none.
RECURSIVE FindFrom(_, _, _)
FindFrom(s, c, i) ==
  IF i >= Len(s) THEN -1
  ELSE IF s[i + 1] = c THEN i
  ELSE FindFrom(s, c, i + 1)

Find(s, c) == FindFrom(s, c, 0)

\* s[i:] with Python's treatment of a negative or too large index.
SliceFrom(s, i) ==
  LET start == IF i < 0 THEN Max(Len(s) + i, 0) ELSE Min(i, Len(s))
  IN SubSeq(s, start + 1, Len(s))

\* A trim at the last "{" of the buffer (rfind for find).
RECURSIVE FindLastFrom(_, _, _)
FindLastFrom(s, c, i) ==
  IF i < 0 THEN -1
  ELSE IF s[i + 1] = c THEN i
  ELSE FindLastFrom(s, c, i - 1)

Trim_rfind(buf) == SliceFrom(buf, FindLastFrom(buf, Ch.lbrace, Len(buf) - 1))

\* buffer[buffer.find("{"):]
Trim(buf) == SliceFrom(buf, Find(buf, Ch.lbrace))

\* ------------------------------------------------------------ JSON scanner
\* s[i:i+1]: the character at 0-based index i, -1 for the empty string.
At(s, i) == IF i >= 0 /\ i < Len(s) THEN s[i + 1] ELSE -1

\* WHITESPACE.match(s, i).end()
RECURSIVE SkipWs(_, _)
SkipWs(s, i) == IF At(s, i) \in WHITESPACE THEN SkipWs(s, i + 1) ELSE i

\* json.JSONDecodeError: Fail at a character of the input, Short where
\* the input ends.
Fail  == [ok |-> FALSE, val |-> NoVal, end |-> 0, short |-> FALSE]
Short == [ok |-> FALSE, val |-> NoVal, end |-> 0, short |-> TRUE]

\* scanstring(s, end, strict=False): end is the index after the opening
\* quote; the string runs to the next quote, control characters allowed.
scanstring(s, end) ==
  LET q == FindFrom(s, Ch.quote, end) IN
  IF q < 0 THEN Short
  ELSE [ok |-> TRUE, val |-> StrVal(SubSeq(s, end + 1, q)), end |-> q + 1]

\* End of the run of digits that starts at i (NUMBER_RE: "0" alone or a
\* non-zero digit followed by digits).
RECURSIVE DigitsEnd(_, _)
DigitsEnd(s, i) == IF At(s, i) \in DIGITS THEN DigitsEnd(s, i + 1) ELSE i

NumberEnd(s, i) == IF At(s, i) = 48 THEN i + 1 ELSE DigitsEnd(s, i)

\* int(text) of the digits s[i:j]
RECURSIVE IntOf(_, _, _)
IntOf(s, i, j) ==
  IF j <= i THEN 0 ELSE IntOf(s, i, j - 1) * 10 + (s[j] - 48)

RECURSIVE scan_once(_, _)
RECURSIVE JSONObjectPairs(_, _, _)

\* The "while True" loop of JSONObject: end is the index after the opening
\* quote of a key, pairs the pairs read so far.
JSONObjectPairs(s, end, pairs) ==
  LET k == scanstring(s, end) IN
  IF ~k.ok THEN k ELSE
  LET e1 == IF At(s, k.end) # Ch.colon THEN SkipWs(s, k.end) ELSE k.end IN
  IF At(s, e1) = -1 THEN Short ELSE
  IF At(s, e1) # Ch.colon THEN Fail ELSE
  LET e2 == SkipWs(s, e1 + 1)
      v  == scan_once(s, e2) IN
  IF ~v.ok THEN v ELSE
  LET e3       == SkipWs(s, v.end)
      nextchar == At(s, e3)
      newpairs == DictPut(pairs, k.val.s, v.val) IN
  IF nextchar = Ch.rbrace
    THEN [ok |-> TRUE, val |-> ObjVal(newpairs), end |-> e3 + 1]
  ELSE IF nextchar = -1 THEN Short
  ELSE IF nextchar # Ch.comma THEN Fail
  ELSE LET e4 == SkipWs(s, e3 + 1) IN
       IF At(s, e4) = -1 THEN Short
       ELSE IF At(s, e4) # Ch.quote THEN Fail
       ELSE JSONObjectPairs(s, e4 + 1, newpairs)

\* JSONObject((s, end), ...): end is the index after the "{".
JSONObject(s, end) ==
  LET e0 == IF At(s, end) # Ch.quote THEN SkipWs(s, end) ELSE end IN
  IF At(s, e0) = Ch.rbrace THEN [ok |-> TRUE, val |-> ObjVal({}), end |-> e0 + 1]
  ELSE IF At(s, e0) = -1 THEN Short
  ELSE IF At(s, e0) # Ch.quote THEN Fail
  ELSE JSONObjectPairs(s, e0 + 1, {})

\* scan_once(s, idx): dispatch on the character at idx.
scan_once(s, idx) ==
  LET nextchar == At(s, idx) IN
  IF nextchar = -1 THEN Short
  ELSE IF nextchar = Ch.quote THEN scanstring(s, idx + 1)
  ELSE IF nextchar = Ch.lbrace THEN JSONObject(s, idx + 1)
  ELSE IF nextchar \in DIGITS THEN
    LET e == NumberEnd(s, idx) IN
    [ok |-> TRUE, val |-> NumVal(IntOf(s, idx, e)), end |-> e]
  ELSE Fail

\* A decoder that takes the end of the input for the closing brace of an
\* object that is still open.
raw_decode_eager(s) ==
  LET r == scan_once(s, 0) IN
  IF r.ok \/ At(s, 0) # Ch.lbrace THEN r
  ELSE [ok |-> TRUE, val |-> ObjVal({}), end |-> Len(s)]

\* decoder.raw_decode(buffer): the value at index 0 and the index after
\* it; ok = FALSE stands for json.JSONDecodeError.
raw_decode(s) == scan_once(s, 0)

\* HTTPError is raised by response.raise_for_status() for 4xx and 5xx.
IsErrorStatus(code) == code >= 400 /\ code < 600

\* ------------------------------------------------------------ the streams
\* The objects a stream of the wire format is made of, each with the bytes
\* on the wire and the value it stands for:
\*   {}      {"e'":1}  (e' is the two-byte character U+00E9)
\*   {"{":{} ,"":11}
Catalogue ==
  << [bytes |-> <<123, 125>>,
      val   |-> ObjVal({})],
     [bytes |-> <<123, 34, 195, 169, 34, 58, 49, 125>>,
      val   |-> ObjVal({ <<(<<233>>), NumVal(1)>> })],
     [bytes |-> <<123, 34, 123, 34, 58, 123, 125, 32, 44, 34, 34, 58, 49, 49, 125>>,
      val   |-> ObjVal({ <<(<<123>>), ObjVal({})>>, <<(<<>>), NumVal(11)>> })] >>

\* Bytes before the first object that contain no "{":  nothing, a space,
\* a comma and a digit.
StrayPrefixes == { <<>>, <<32>>, <<44, 49>> }

\* Bytes between two objects: nothing (the wire format), a space, a comma.
Separators == { <<>>, <<32>>, <<44>> }

\* A truncated last object: the first n bytes of {"e'":1}; 3 cuts the
\* two-byte character in the middle.
TailCuts == {0, 1, 3, 6}
Tails == { SubSeq(Catalogue[2].bytes, 1, n) : n \in TailCuts }

RECURSIVE SeqsUpTo(_, _)
SeqsUpTo(S, n) ==
  IF n = 0 THEN { <<>> }
  ELSE LET T == SeqsUpTo(S, n - 1) IN
       T \cup { Append(t, x) : t \in {u \in T : Len(u) = n - 1}, x \in S }

\* Complete streams with any stray prefix and separator, and truncated
\* streams of the plain wire format.
Shapes ==
  [ kind : {"wire"}, prefix : StrayPrefixes,
    objs : SeqsUpTo(1..Len(Catalogue), MaxObjs),
    sep : Separators, tail : { <<>> } ]
  \cup
  [ kind : {"wire"}, prefix : { <<>> },
    objs : SeqsUpTo(1..Len(Catalogue), MaxObjs),
    sep : { <<>> }, tail : Tails ]

RECURSIVE Joined(_, _)
Joined(objs, sep) ==
  IF objs = <<>> THEN <<>>
  ELSE IF Len(objs) = 1 THEN Catalogue[objs[1]].bytes
  ELSE Catalogue[objs[1]].bytes \o sep \o Joined(Tail(objs), sep)

StreamOf(sh) == sh.prefix \o Joined(sh.objs, sh.sep) \o sh.tail

\* The values of the objects of a stream, in stream order.
ValuesOf(sh) == [i \in 1..Len(sh.objs) |-> Catalogue[sh.objs[i]].val]

\* The bytes of the streams of arbitrary bytes.
AnyBytes == {123, 125, 34, 58, 49, 32, 44, 195, 169}

\* A success status and an error status.
Statuses == {200, 503}

\* ------------------------------------------------------------------ state
VARIABLES
  source,    \* bytes the chunk source has not delivered yet
  received,  \* bytes delivered so far, the concatenation of the chunks
  buffer,    \* parse_json_stream: buffer (text)
  idx,       \* parse_json_stream: idx of the last successful raw_decode
  yielded,   \* values the generator has yielded, with their byte span
  handled,   \* values the loop body of query_endpoint_streamed has printed
  pc,        \* position in the code
  err,       \* the exception that left query_endpoint_streamed, if any
  status,    \* response.status_code
  shape,     \* history: how the stream was put together
  mark,      \* history: the complete objects at the buffer front after
             \* the last append, and how many values had been yielded then
  peer       \* a second invocation of parse_json_stream: its chunk source,
             \* the chunks it has read (history) and its locals

vars == <<source, received, buffer, idx, yielded, handled, pc, err, status,
          shape, mark, peer>>

\* The second invocation before it is made.
PeerUnused ==
  [source |-> <<>>, chunks |-> <<>>, buffer |-> <<>>, idx |-> 0,
   yielded |-> <<>>, pc |-> "unused"]

\* The complete objects that stand back to back at the front of a text.
RECURSIVE LeadingObjects(_)
LeadingObjects(text) ==
  LET r == raw_decode(text) IN
  IF At(text, 0) = Ch.lbrace /\ r.ok
    THEN <<r.val>> \o LeadingObjects(SliceFrom(text, r.end))
    ELSE <<>>

InitRest ==
  /\ received = <<>>
  /\ buffer = <<>>
  /\ idx = 0
  /\ yielded = <<>>
  /\ handled = <<>>
  /\ pc = "iter"
  /\ err = "none"
  /\ status \in Statuses
  /\ mark = [at |-> 0, objs |-> <<>>]

\* Streams of the wire format and its deviations: stray bytes, then
\* objects, then possibly a truncated object.
Init ==
  /\ shape \in Shapes
  /\ source = StreamOf(shape)
  /\ peer = PeerUnused
  /\ InitRest

\* Streams of arbitrary bytes.
InitAny ==
  /\ source \in SeqsUpTo(AnyBytes, MaxLen)
  /\ shape = [kind |-> "any", prefix |-> <<>>, objs |-> <<>>,
              sep |-> <<>>, tail |-> <<>>]
  /\ peer = PeerUnused
  /\ InitRest

\* The streams of two invocations that run side by side:
\*   {}{}     {"":1}     {} {}
PairStreams ==
  { <<123, 125, 123, 125>>,
    <<123, 34, 34, 58, 49, 125>>,
    <<123, 125, 32, 123, 125>> }

\* Two invocations, each over a chunk source of its own.
InitTwo ==
  /\ source \in PairStreams
  /\ shape = [kind |-> "pair", prefix |-> <<>>, objs |-> <<>>,
              sep |-> <<>>, tail |-> <<>>]
  /\ peer \in [source : PairStreams, chunks : { <<>> }, buffer : { <<>> },
                idx : {0}, yielded : { <<>> }, pc : {"iter"}]
  /\ InitRest

\* ---------------------------------------------------------------- actions
\* Lines 20-21: the chunk source delivers the next chunk, any non-empty
\* prefix of what is left; the chunk is decoded and appended.
NextChunk ==
  /\ pc = "iter"
  /\ \E n \in 1..Len(source) :
       LET chunk == SubSeq(source, 1, n)
           d     == Utf8Decode(chunk) IN
       /\ source' = SubSeq(source, n + 1, Len(source))
       /\ received' = received \o chunk
       /\ IF d.ok
            THEN /\ buffer' = buffer \o d.text
                 /\ pc' = "trim"
                 /\ err' = err
                 /\ mark' = [at |-> Len(yielded), objs |-> LeadingObjects(buffer')]
            ELSE /\ buffer' = buffer
                 /\ pc' = "raised"
                 /\ err' = "UnicodeDecodeError"
                 /\ mark' = mark
  /\ UNCHANGED <<idx, yielded, handled, status, shape>>
  /\ UNCHANGED peer

\* Line 20: the chunk source fails while the next chunk is read; the
\* exception is not an HTTPError and leaves query_endpoint_streamed.
TransportFail ==
  /\ pc = "iter"
  /\ pc' = "raised"
  /\ err' = "TransportError"
  /\ UNCHANGED <<source, received, buffer, idx, yielded, handled, status,
                 shape, mark>>
  /\ UNCHANGED peer

\* An end of stream that reports the bytes left in the buffer.
EndOfStream_strict ==
  /\ pc = "iter"
  /\ source = <<>>
  /\ IF buffer = <<>>
       THEN pc' = "status" /\ err' = err
       ELSE pc' = "raised" /\ err' = "JSONDecodeError"
  /\ UNCHANGED <<source, received, buffer, idx, yielded, handled,
                 status, shape, mark>>
  /\ UNCHANGED peer

\* Line 20: the chunk source is exhausted, the generator returns and the
\* loop of query_endpoint_streamed ends.
EndOfStream ==
  /\ pc = "iter"
  /\ source = <<>>
  /\ pc' = "status"
  /\ UNCHANGED <<source, received, buffer, idx, yielded, handled, err,
                 status, shape, mark>>
  /\ UNCHANGED peer

\* Line 22.
TrimBuffer ==
  /\ pc = "trim"
  /\ buffer' = Trim(buffer)
  /\ pc' = "decode"
  /\ UNCHANGED <<source, received, idx, yielded, handled, err, status,
                 shape, mark>>
  /\ UNCHANGED peer

\* A decode attempt that resynchronises: when the decode fails at a
\* character of the buffer, the first character is dropped.
Decode_resync ==
  /\ pc = "decode"
  /\ LET r    == raw_decode(buffer)
         from == Len(received) - ByteLen(buffer) IN
     IF r.ok
       THEN /\ idx' = r.end
            /\ yielded' = Append(yielded,
                 [obj |-> r.val, from |-> from,
                  to |-> from + ByteLen(SubSeq(buffer, 1, r.end))])
            /\ pc' = "yield"
            /\ buffer' = buffer
       ELSE /\ pc' = "iter"
            /\ buffer' = IF r.short THEN buffer ELSE SliceFrom(buffer, 1)
            /\ UNCHANGED <<idx, yielded>>
  /\ UNCHANGED <<source, received, handled, err, status, shape, mark>>
  /\ UNCHANGED peer

\* A decode attempt that lets the JSONDecodeError of a buffer that does
\* not start an object leave the generator.
Decode_strict ==
  /\ pc = "decode"
  /\ LET r    == raw_decode(buffer)
         from == Len(received) - ByteLen(buffer) IN
     IF r.ok
       THEN /\ idx' = r.end
            /\ yielded' = Append(yielded,
                 [obj |-> r.val, from |-> from,
                  to |-> from + ByteLen(SubSeq(buffer, 1, r.end))])
            /\ pc' = "yield"
            /\ err' = err
       ELSE /\ IF At(buffer, 1) \in {Ch.quote, Ch.rbrace, -1} \cup WHITESPACE
                 THEN pc' = "iter" /\ err' = err
                 ELSE pc' = "raised" /\ err' = "JSONDecodeError"
            /\ UNCHANGED <<idx, yielded>>
  /\ UNCHANGED <<source, received, buffer, handled, status, shape, mark>>
  /\ UNCHANGED peer

\* Lines 25-26 and 28-30: one decode attempt; a value is yielded, or the
\* JSONDecodeError ends the inner loop.
Decode ==
  /\ pc = "decode"
  /\ LET r    == raw_decode(buffer)
         from == Len(received) - ByteLen(buffer) IN
     IF r.ok
       THEN /\ idx' = r.end
            /\ yielded' = Append(yielded,
                 [obj |-> r.val, from |-> from,
                  to |-> from + ByteLen(SubSeq(buffer, 1, r.end))])
            /\ pc' = "yield"
       ELSE /\ pc' = "iter"
            /\ UNCHANGED <<idx, yielded>>
  /\ UNCHANGED <<source, received, buffer, handled, err, status, shape, mark>>
  /\ UNCHANGED peer

\* Lines 52-59: the loop body of query_endpoint_streamed prints the value.
Handle ==
  /\ pc = "yield"
  /\ handled' = Append(handled, yielded[Len(yielded)].obj)
  /\ pc' = "slice"
  /\ UNCHANGED <<source, received, buffer, idx, yielded, err, status,
                 shape, mark>>
  /\ UNCHANGED peer

\* A resume that drops one character less than was decoded.
Slice_short ==
  /\ pc = "slice"
  /\ buffer' = SliceFrom(buffer, idx - 1)
  /\ pc' = "decode"
  /\ UNCHANGED <<source, received, idx, yielded, handled, err, status,
                 shape, mark>>
  /\ UNCHANGED peer

\* A resume that empties the buffer.
Slice_clear ==
  /\ pc = "slice"
  /\ buffer' = <<>>
  /\ pc' = "decode"
  /\ UNCHANGED <<source, received, idx, yielded, handled, err, status,
                 shape, mark>>
  /\ UNCHANGED peer

\* A resume that forgets to drop the decoded prefix.
Slice_keep ==
  /\ pc = "slice"
  /\ buffer' = buffer
  /\ pc' = "decode"
  /\ UNCHANGED <<source, received, idx, yielded, handled, err, status,
                 shape, mark>>
  /\ UNCHANGED peer

\* A resume that decodes one value per chunk ("if" for "while").
Slice_once ==
  /\ pc = "slice"
  /\ buffer' = SliceFrom(buffer, idx)
  /\ pc' = "iter"
  /\ UNCHANGED <<source, received, idx, yielded, handled, err, status,
                 shape, mark>>
  /\ UNCHANGED peer

\* Line 27: the generator is resumed and drops the decoded prefix.
Slice ==
  /\ pc = "slice"
  /\ buffer' = SliceFrom(buffer, idx)
  /\ pc' = "decode"
  /\ UNCHANGED <<source, received, idx, yielded, handled, err, status,
                 shape, mark>>
  /\ UNCHANGED peer

\* A status check that also runs before the first chunk is read.
RaiseForStatus_early ==
  /\ \/ pc = "status"
     \/ pc = "iter" /\ received = <<>> /\ IsErrorStatus(status)
  /\ IF IsErrorStatus(status)
       THEN pc' = "raised" /\ err' = "HTTPError"
       ELSE pc' = "returned" /\ err' = err
  /\ UNCHANGED <<source, received, buffer, idx, yielded, handled, status,
                 shape, mark>>
  /\ UNCHANGED peer

\* A status check that swallows the HTTPError.
RaiseForStatus_swallow ==
  /\ pc = "status"
  /\ pc' = "returned"
  /\ UNCHANGED <<source, received, buffer, idx, yielded, handled, err,
                 status, shape, mark>>
  /\ UNCHANGED peer

\* Lines 61-68: response.raise_for_status(); the HTTPError is printed and
\* raised again.
RaiseForStatus ==
  /\ pc = "status"
  /\ IF IsErrorStatus(status)
       THEN pc' = "raised" /\ err' = "HTTPError"
       ELSE pc' = "returned" /\ err' = err
  /\ UNCHANGED <<source, received, buffer, idx, yielded, handled, status,
                 shape, mark>>
  /\ UNCHANGED peer

\* ------------------------------------------------- the second invocation
\* The steps of the second invocation work on its own locals, which are
\* created by its call (lines 18-19); its consumer only collects values.
mainvars == <<source, received, buffer, idx, yielded, handled, pc, err,
              status, shape, mark>>

\* A second invocation whose buffer is the buffer of the first one, as if
\* the buffer were a module-level variable.
PeerChunk_shared ==
  /\ peer.pc = "iter"
  /\ \E n \in 1..Len(peer.source) :
       LET chunk == SubSeq(peer.source, 1, n)
           d     == Utf8Decode(chunk) IN
       /\ peer' = [peer EXCEPT
            !.source = SubSeq(peer.source, n + 1, Len(peer.source)),
            !.chunks = Append(peer.chunks, chunk),
            !.buffer = IF d.ok THEN buffer \o d.text ELSE @,
            !.pc     = IF d.ok THEN "trim" ELSE "raised"]
       /\ buffer' = IF d.ok THEN buffer \o d.text ELSE buffer
  /\ UNCHANGED <<source, received, idx, yielded, handled, pc, err,
                 status, shape, mark>>

\* Lines 20-21 of the second invocation.
PeerChunk ==
  /\ peer.pc = "iter"
  /\ \E n \in 1..Len(peer.source) :
       LET chunk == SubSeq(peer.source, 1, n)
           d     == Utf8Decode(chunk) IN
       peer' = [peer EXCEPT
         !.source = SubSeq(peer.source, n + 1, Len(peer.source)),
         !.chunks = Append(peer.chunks, chunk),
         !.buffer = IF d.ok THEN @ \o d.text ELSE @,
         !.pc     = IF d.ok THEN "trim" ELSE "raised"]
  /\ UNCHANGED mainvars

\* Line 20 of the second invocation: its chunk source is exhausted.
PeerEnd ==
  /\ peer.pc = "iter"
  /\ peer.source = <<>>
  /\ peer' = [peer EXCEPT !.pc = "done"]
  /\ UNCHANGED mainvars

\* Line 22 of the second invocation.
PeerTrim ==
  /\ peer.pc = "trim"
  /\ peer' = [peer EXCEPT !.buffer = Trim(@), !.pc = "decode"]
  /\ UNCHANGED mainvars

\* Lines 25-26 and 28-30 of the second invocation.
PeerDecode ==
  /\ peer.pc = "decode"
  /\ LET r == raw_decode(peer.buffer) IN
     peer' = IF r.ok
               THEN [peer EXCEPT !.idx = r.end,
                                 !.yielded = Append(@, r.val),
                                 !.pc = "yield"]
               ELSE [peer EXCEPT !.pc = "iter"]
  /\ UNCHANGED mainvars

\* Line 27 of the second invocation.
PeerSlice ==
  /\ peer.pc = "yield"
  /\ peer' = [peer EXCEPT !.buffer = SliceFrom(@, peer.idx), !.pc = "decode"]
  /\ UNCHANGED mainvars

Next ==
  \/ NextChunk
  \/ TransportFail
  \/ EndOfStream
  \/ TrimBuffer
  \/ Decode
  \/ Handle
  \/ Slice
  \/ RaiseForStatus

Spec == Init /\ [][Next]_vars

SpecAny == InitAny /\ [][Next]_vars

\* Two invocations whose steps interleave in any order.
NextTwo ==
  \/ Next
  \/ PeerChunk
  \/ PeerEnd
  \/ PeerTrim
  \/ PeerDecode
  \/ PeerSlice

SpecTwo == InitTwo /\ [][NextTwo]_vars

\* ------------------------------------------------------------ vocabulary
\* The values yielded so far, without their spans.
Yields == [i \in 1..Len(yielded) |-> yielded[i].obj]

\* The generator has returned: the chunk source was read to its end.
Exhausted ==
  \/ pc \in {"status", "returned"}
  \/ pc = "raised" /\ err = "HTTPError"

\* The stream is a plain concatenation of complete objects.
CleanWire ==
  /\ shape.kind = "wire"
  /\ shape.prefix = <<>> /\ shape.sep = <<>> /\ shape.tail = <<>>

\* Back-to-back objects followed by a truncated one.
TruncatedWire ==
  /\ shape.kind = "wire"
  /\ shape.prefix = <<>> /\ shape.sep = <<>> /\ shape.tail # <<>>

\* Stray bytes without "{", then back-to-back objects.
PrefixedWire ==
  /\ shape.kind = "wire" /\ shape.objs # <<>>
  /\ shape.sep = <<>> /\ shape.tail = <<>>

IsPrefix(a, b) == Len(a) <= Len(b) /\ a = SubSeq(b, 1, Len(a))

\* The text of the longest decodable prefix of a byte string.
RECURSIVE Utf8Text(_)
Utf8Text(bytes) ==
  IF bytes = <<>> THEN <<>>
  ELSE IF bytes[1] < 128 THEN <<bytes[1]>> \o Utf8Text(Tail(bytes))
  ELSE IF bytes[1] \in 194..223 /\ Len(bytes) >= 2 /\ bytes[2] \in 128..191
    THEN <<(bytes[1] - 192) * 64 + (bytes[2] - 128)>>
         \o Utf8Text(SubSeq(bytes, 3, Len(bytes)))
  ELSE <<>>

\* The whole logical stream, and its text from a byte offset on.
Logical == received \o source
LogicalTextFrom(off) == Utf8Text(SubSeq(Logical, off + 1, Len(Logical)))

\* A text holds a complete object at its first "{".
HasCompleteObject(text) ==
  LET t == Trim(text) IN At(t, 0) = Ch.lbrace /\ raw_decode(t).ok

\* ------------------------------------------------------------------ claims

\* C1: for a stream that is a concatenation of valid objects, every way of
\* cutting it into chunks yields the objects of the stream, in order, as
\* the single-chunk run does.  Stated of every run that the generator has
\* ended, by exhaustion or by an exception of its own.
C1_BoundaryIndependence ==
  (CleanWire /\ (Exhausted \/ err = "UnicodeDecodeError"))
    => Yields = ValuesOf(shape)

\* C2: every yielded value lies within the bytes received so far, and a
\* value yielded at the start of an object is the value that the whole
\* logical stream holds at that place, ending at the same byte: nothing is
\* yielded from a proper prefix of an object.
C2_NoPartialEmission ==
  \A i \in 1..Len(yielded) :
    LET y    == yielded[i]
        full == LogicalTextFrom(y.from)
        r    == raw_decode(full) IN
    /\ y.from < y.to /\ y.to <= Len(received)
    /\ Logical[y.from + 1] = Ch.lbrace =>
         /\ y.obj.t = "obj"
         /\ r.ok /\ r.val = y.obj
         /\ ByteLen(SubSeq(full, 1, r.end)) = y.to - y.from

\* C2 witness: an object is yielded with the chunk that brings its closing
\* byte while the stream goes on.
C2_Witness ==
  /\ pc = "yield" /\ source # <<>>
  /\ yielded[Len(yielded)].obj = Catalogue[2].val
  /\ yielded[Len(yielded)].to = Len(received)
  /\ mark.objs = <<>>

\* C3: when the chunk source is found exhausted on a stream that ends in a
\* truncated object, every complete object has been yielded, and the only
\* step other than a failure of the transport ends the generator without
\* an exception and without a further value.
C3_TruncatedTail ==
  [][ (pc = "iter" /\ source = <<>> /\ TruncatedWire /\ err' # "TransportError")
        => /\ pc' = "status" /\ err' = "none"
           /\ yielded' = yielded
           /\ Yields = ValuesOf(shape) ]_vars

\* C3 witness: the generator has ended on a truncated stream with the
\* fragment left in the buffer and two objects yielded.
C3_Witness ==
  /\ pc = "status" /\ TruncatedWire
  /\ buffer = Utf8Text(shape.tail) /\ Len(shape.tail) = 6
  /\ Len(yielded) = 2

\* C4: the spans of the yielded values are disjoint and in stream order,
\* so nothing is yielded twice and no value follows one that closes later;
\* on a concatenation of objects the yielded values are the first objects
\* of the stream.
C4_OrderAtMostOnce ==
  /\ \A i, j \in 1..Len(yielded) :
       i < j => yielded[i].to <= yielded[j].from
  /\ \A i \in 1..Len(yielded) : yielded[i].from < yielded[i].to
  /\ CleanWire => IsPrefix(Yields, ValuesOf(shape))

\* C4 witness: two different objects have been yielded from several chunks.
C4_Witness ==
  /\ Len(yielded) = 2 /\ yielded[1].obj # yielded[2].obj
  /\ CleanWire /\ pc = "yield"
  /\ yielded[1].to < Len(received) - 1

\* C5: on a stream of stray bytes without "{" followed by objects, the
\* yielded values are exactly the objects and none of them is made of
\* bytes of the stray prefix.
C5_LeadingStrayBytes ==
  PrefixedWire =>
    /\ \A i \in 1..Len(yielded) : yielded[i].from >= Len(shape.prefix)
    /\ Exhausted => Yields = ValuesOf(shape)

\* C6: the complete objects that stand back to back at the buffer front
\* after a chunk has been appended are all yielded, in order, before the
\* next chunk is requested.
C6_DrainBeforeRead ==
  (pc \in {"iter", "status"}) =>
    /\ Len(yielded) >= mark.at + Len(mark.objs)
    /\ \A i \in 1..Len(mark.objs) : yielded[mark.at + i].obj = mark.objs[i]
    /\ handled = Yields

\* C6 witness: the next chunk is requested after two objects of one chunk
\* have been yielded.
C6_Witness ==
  /\ pc = "iter" /\ source # <<>>
  /\ Len(mark.objs) = 2 /\ Len(yielded) = mark.at + 2

\* C7: whenever the next chunk is requested or the end of the stream is
\* observed, the buffer holds no complete object.
C7_PullDiscipline ==
  pc = "iter" => ~HasCompleteObject(buffer)

C9_TransportFailuresPropagate ==
  [][ /\ (err' # "none" => pc' = "raised")
      /\ (pc' = "returned" => ~IsErrorStatus(status) /\ err' = "none")
      /\ (pc = "raised" => FALSE)
      /\ IsPrefix(handled, handled') /\ IsPrefix(yielded, yielded') ]_vars

\* C9 witness: the transport failed after a value had been handled.
C9_Witness ==
  /\ pc = "raised" /\ err = "TransportError"
  /\ Len(handled) >= 1

\* C10: a stream that is UTF-8-decodable as a whole is accepted in every
\* chunking: decoding a chunk never raises.
C10_ChunkSizesOpaque ==
  Utf8Decode(Logical).ok => err # "UnicodeDecodeError"

IsSuffix(a, b) ==
  Len(a) <= Len(b) /\ a = SubSeq(b, Len(b) - Len(a) + 1, Len(b))

\* The text of the chunk that a step has just received.
NewText == Utf8Text(SubSeq(received', Len(received) + 1, Len(received')))

\* The buffer starts an object that no continuation completes: the decode
\* fails at a character of the buffer, not at its end.
MalformedHead(text) ==
  /\ At(text, 0) = Ch.lbrace
  /\ ~raw_decode(text).ok /\ ~raw_decode(text).short

\* A measure of the work left: bytes to deliver count twice the characters
\* in the buffer, and the positions of one round count down.
PcRank ==
  CASE pc = "trim"     -> 7
    [] pc = "decode"   -> 6
    [] pc = "yield"    -> 5
    [] pc = "slice"    -> 4
    [] pc = "iter"     -> 3
    [] pc = "status"   -> 2
    [] pc = "returned" -> 1
    [] OTHER           -> 0

Rank == 8 * (2 * Len(source) + Len(buffer)) + PcRank

\* C11: every step of a run lowers a measure that is never negative, so a
\* run over a finite stream has finitely many steps and yields; the step
\* after a successful decode shortens the buffer.
C11_Termination ==
  [][ /\ Rank' < Rank /\ Rank' >= 0
      /\ pc = "slice" => Len(buffer') < Len(buffer) ]_vars

\* C11 witness: a run of several decodes has ended.
C11_Witness ==
  /\ pc = "returned" /\ source = <<>>
  /\ Len(yielded) >= 2 /\ buffer = <<>>

\* C12: every yielded value is a JSON object.
C12_OnlyObjects ==
  \A i \in 1..Len(yielded) : yielded[i].obj.t = "obj"

\* C14: right after the trim that follows an append (no value yielded
\* since), the buffer is empty or starts with "{".
C14_TrimInvariant ==
  (pc = "decode" /\ Len(yielded) = mark.at /\ received # <<>>)
    => (buffer = <<>> \/ buffer[1] = Ch.lbrace)

\* C15: a failed decode leaves the buffer as it was and yields nothing,
\* and a buffer that starts an object keeps all its characters, in order
\* and at the front, through the next append and trim.
C15_FailedDecodeKeepsBuffer ==
  [][ /\ (pc = "decode" /\ ~raw_decode(buffer).ok)
           => (buffer' = buffer /\ yielded' = yielded /\ pc' = "iter")
      /\ (pc = "iter" /\ At(buffer, 0) = Ch.lbrace /\ pc' = "trim")
           => buffer' = buffer \o NewText
      /\ (pc = "trim" /\ At(buffer, 0) = Ch.lbrace)
           => buffer' = buffer ]_vars

\* C15 witness: after a failed decode an unfinished object of several
\* characters waits at the buffer front for the next chunk.
C15_Witness ==
  /\ pc = "iter" /\ source # <<>>
  /\ At(buffer, 0) = Ch.lbrace /\ Len(buffer) >= 3
  /\ raw_decode(buffer).short

\* C16: the buffer changes only by the append of the new chunk or by the
\* removal of a prefix; the step after a decode removes exactly the bytes
\* of the decoded value; the buffer is a suffix of the text received.
C16_BufferDiscipline ==
  [][ /\ buffer' # buffer =>
           \/ pc = "iter" /\ buffer' = buffer \o NewText
           \/ pc # "iter" /\ IsSuffix(buffer', buffer)
      /\ pc = "slice" =>
           /\ IsSuffix(buffer', buffer)
           /\ ByteLen(buffer) - ByteLen(buffer')
                = yielded[Len(yielded)].to - yielded[Len(yielded)].from
      /\ \/ IsSuffix(buffer', Utf8Text(received'))
         \/ err' = "UnicodeDecodeError" /\ buffer' = buffer ]_vars

\* C16 witness: a value has been removed from the front of the buffer
\* and the bytes behind it are still there.
C16_Witness ==
  /\ pc = "decode" /\ Len(yielded) = 1
  /\ buffer # <<>> /\ ByteLen(buffer) = Len(received) - yielded[1].to

\* C17: once the buffer starts an object that cannot be completed, it
\* stays so: the buffer only grows by the chunks appended, nothing is
\* yielded any more, and the end of the stream ends the generator
\* without an exception.
C17_MalformedHeadBlocks ==
  [][ MalformedHead(buffer) =>
        /\ MalformedHead(buffer')
        /\ yielded' = yielded
        /\ IsPrefix(buffer, buffer')
        /\ pc' = "trim" => buffer' = buffer \o NewText
        /\ (pc = "iter" /\ source = <<>> /\ err' # "TransportError")
             => (pc' = "status" /\ err' = "none") ]_vars

\* C17 witness: the stream has ended with a complete object in the
\* buffer behind a malformed head, and nothing was yielded.
C17_Witness ==
  /\ pc = "status" /\ yielded = <<>>
  /\ buffer = <<Ch.lbrace, Ch.one, Ch.lbrace, Ch.rbrace>>

\* C18: the status is checked only when the generator is exhausted: every
\* yielded value has been handled by then, on a concatenation of objects
\* these are all objects of the stream, and only then the HTTPError is
\* raised; a failure of the chunk source never reaches the status check.
C18_StatusAfterDrain ==
  [][ /\ pc' = "status" => (pc = "iter" /\ source = <<>> /\ handled = Yields)
      /\ err' = "HTTPError" =>
           /\ pc = "status" /\ IsErrorStatus(status)
           /\ handled' = handled /\ handled = Yields
           /\ CleanWire => handled = ValuesOf(shape)
      /\ (pc = "status" /\ IsErrorStatus(status))
           => (pc' = "raised" /\ err' = "HTTPError")
      /\ err' = "TransportError" => (pc = "iter" /\ pc' = "raised") ]_vars

\* C18 witness: the HTTPError was raised after two values were handled.
C18_Witness ==
  /\ pc = "raised" /\ err = "HTTPError"
  /\ Len(handled) = 2 /\ CleanWire

\* What one invocation yields when it runs alone over the given chunks:
\* the inner loop on a buffer, and the outer loop over the chunks.
RECURSIVE Drain(_, _)
Drain(text, out) ==
  LET r == raw_decode(text) IN
  IF r.ok THEN Drain(SliceFrom(text, r.end), Append(out, r.val))
  ELSE [buffer |-> text, out |-> out]

RECURSIVE RunAlone(_, _, _)
RunAlone(chunks, text, out) ==
  IF chunks = <<>> THEN out
  ELSE LET d == Utf8Decode(chunks[1]) IN
       IF ~d.ok THEN out
       ELSE LET r == Drain(Trim(text \o d.text), out) IN
            RunAlone(Tail(chunks), r.buffer, r.out)

\* C13: of two invocations whose steps interleave, a step of one changes
\* no local of the other, the second yields what it yields alone over
\* its chunks, and so does the first (a stream of back-to-back objects
\* yields its objects whatever the other invocation does).
C13_InstancesIndependent ==
  [][ /\ peer' # peer => mainvars' = mainvars
      /\ mainvars' # mainvars => peer' = peer
      /\ peer'.pc \in {"iter", "done", "raised"}
           => peer'.yielded = RunAlone(peer'.chunks, <<>>, <<>>)
      /\ (pc' = "status" /\ Drain(Utf8Text(received'), <<>>).buffer = <<>>)
           => Yields' = LeadingObjects(Utf8Text(received')) ]_vars

\* C13 witness: both invocations have ended, each having yielded from
\* several chunks while the other was under way.
C13_Witness ==
  /\ peer.pc = "done" /\ Len(peer.chunks) >= 2 /\ Len(peer.yielded) = 2
  /\ pc = "returned" /\ Len(yielded) = 1 /\ peer.source = <<>>
  /\ yielded[1].obj # peer.yielded[1]

====
